---- MODULE Spec2Model ----
(***************************************************************************)
(* Storage layer of the Mergington High School API                         *)
(* (src/backend/database.py): the backend selection made when the module   *)
(* is imported, the in-memory MockCollection that stands in for a MongoDB  *)
(* collection, and the seeding done by init_database.                      *)
(*                                                                         *)
(* Python objects are modelled with their identity: every dict is a cell   *)
(* of `dicts`, every list a cell of `lists`, and a dict field that holds a *)
(* list holds the list's reference, so two dicts that share one list       *)
(* object share it here as well.  A reference is the index of the cell;    *)
(* None is the reference 0.                                                *)
(*                                                                         *)
(* Shape of the data.  A field name decides the kind of value it holds:    *)
(* "participants" and "waitlist" hold lists of strings,                    *)
(* "schedule_details" holds a dict with some of days / start_time /        *)
(* end_time, "max_participants" holds an integer, every other field a      *)
(* string.  The calls the model issues respect these shapes ($push and     *)
(* $pull name a list field, every inserted document carries "_id"), so     *)
(* the AttributeError / KeyError paths of ill-shaped calls are not part of *)
(* the model.                                                              *)
(***************************************************************************)
EXTENDS Integers, Sequences, FiniteSets, TLC

\* Bounds of the exploration.
MaxOps == 3
MaxLen == 4

None == 0

ListFields == {"participants", "waitlist"}

(***************************************************************************)
(* Python's ordering of str: code point by code point, a proper prefix     *)
(* first.  CodePoints spells out the strings the model compares.           *)
(***************************************************************************)
CodePoints(s) ==
    CASE s = "00:00" -> <<48, 48, 58, 48, 48>>
      [] s = "06:30" -> <<48, 54, 58, 51, 48>>
      [] s = "07:00" -> <<48, 55, 58, 48, 48>>
      [] s = "07:15" -> <<48, 55, 58, 49, 53>>
      [] s = "07:45" -> <<48, 55, 58, 52, 53>>
      [] s = "08:00" -> <<48, 56, 58, 48, 48>>
      [] s = "10:00" -> <<49, 48, 58, 48, 48>>
      [] s = "12:00" -> <<49, 50, 58, 48, 48>>
      [] s = "13:00" -> <<49, 51, 58, 48, 48>>
      [] s = "14:00" -> <<49, 52, 58, 48, 48>>
      [] s = "15:15" -> <<49, 53, 58, 49, 53>>
      [] s = "15:30" -> <<49, 53, 58, 51, 48>>
      [] s = "16:00" -> <<49, 54, 58, 48, 48>>
      [] s = "16:45" -> <<49, 54, 58, 52, 53>>
      [] s = "17:00" -> <<49, 55, 58, 48, 48>>
      [] s = "17:30" -> <<49, 55, 58, 51, 48>>
      [] s = "19:00" -> <<49, 57, 58, 48, 48>>
      [] s = "20:30" -> <<50, 48, 58, 51, 48>>
      [] s = "23:59" -> <<50, 51, 58, 53, 57>>
      [] s = "Friday" -> <<70, 114, 105, 100, 97, 121>>
      [] s = "Monday" -> <<77, 111, 110, 100, 97, 121>>
      [] s = "Saturday" -> <<83, 97, 116, 117, 114, 100, 97, 121>>
      [] s = "Sunday" -> <<83, 117, 110, 100, 97, 121>>
      [] s = "Thursday" -> <<84, 104, 117, 114, 115, 100, 97, 121>>
      [] s = "Tuesday" -> <<84, 117, 101, 115, 100, 97, 121>>
      [] s = "Wednesday" -> <<87, 101, 100, 110, 101, 115, 100, 97, 121>>

RECURSIVE SeqLess(_, _)
SeqLess(a, b) ==
    IF a = <<>> THEN b # <<>>
    ELSE IF b = <<>> THEN FALSE
    ELSE IF Head(a) # Head(b) THEN Head(a) < Head(b)
    ELSE SeqLess(Tail(a), Tail(b))

StrLess(a, b) == SeqLess(CodePoints(a), CodePoints(b))

\* Mutant of sorted: descending.
RECURSIVE sorted_descending(_)
sorted_descending(S) ==
    IF S = {} THEN <<>>
    ELSE LET m == CHOOSE x \in S : \A y \in S \ {x} : StrLess(y, x)
         IN  <<m>> \o sorted_descending(S \ {m})

\* sorted(days) of a set of str (line 94): ascending, every element once.
RECURSIVE sorted(_)
sorted(S) ==
    IF S = {} THEN <<>>
    ELSE LET m == CHOOSE x \in S : \A y \in S \ {x} : StrLess(x, y)
         IN  <<m>> \o sorted(S \ {m})

Range(s) == {s[i] : i \in 1..Len(s)}

(***************************************************************************)
(* The seed catalog (lines 139-304).  initial_activities is the dict       *)
(* literal as the sequence of its items, in the order written; the         *)
(* participants of its i-th entry is the list object lists[i], created     *)
(* when the literal is evaluated, with the contents initial_participants.  *)
(***************************************************************************)
initial_participants ==
  << <<"michael@mergington.edu", "daniel@mergington.edu">>,
     <<"emma@mergington.edu", "sophia@mergington.edu">>,
     <<"john@mergington.edu", "olivia@mergington.edu">>,
     <<"liam@mergington.edu", "noah@mergington.edu">>,
     <<"ava@mergington.edu", "mia@mergington.edu">>,
     <<"amelia@mergington.edu", "harper@mergington.edu">>,
     <<"ella@mergington.edu", "scarlett@mergington.edu">>,
     <<"james@mergington.edu", "benjamin@mergington.edu">>,
     <<"charlotte@mergington.edu", "amelia@mergington.edu">>,
     <<"ethan@mergington.edu", "oliver@mergington.edu">>,
     <<"isabella@mergington.edu", "lucas@mergington.edu">>,
     <<"william@mergington.edu", "jacob@mergington.edu">>,
     <<>> >>

initial_activities ==
  <<
     <<"Chess Club",
       [description |-> "Learn strategies and compete in chess tournaments",
        schedule |-> "Mondays and Fridays, 3:15 PM - 4:45 PM",
        schedule_details |-> [days |-> <<"Monday", "Friday">>, start_time |-> "15:15", end_time |-> "16:45"],
        max_participants |-> 12,
        participants |-> 1]>>,
     <<"Programming Class",
       [description |-> "Learn programming fundamentals and build software projects",
        schedule |-> "Tuesdays and Thursdays, 7:00 AM - 8:00 AM",
        schedule_details |-> [days |-> <<"Tuesday", "Thursday">>, start_time |-> "07:00", end_time |-> "08:00"],
        max_participants |-> 20,
        participants |-> 2]>>,
     <<"Morning Fitness",
       [description |-> "Early morning physical training and exercises",
        schedule |-> "Mondays, Wednesdays, Fridays, 6:30 AM - 7:45 AM",
        schedule_details |-> [days |-> <<"Monday", "Wednesday", "Friday">>, start_time |-> "06:30", end_time |-> "07:45"],
        max_participants |-> 30,
        participants |-> 3]>>,
     <<"Soccer Team",
       [description |-> "Join the school soccer team and compete in matches",
        schedule |-> "Tuesdays and Thursdays, 3:30 PM - 5:30 PM",
        schedule_details |-> [days |-> <<"Tuesday", "Thursday">>, start_time |-> "15:30", end_time |-> "17:30"],
        max_participants |-> 22,
        participants |-> 4]>>,
     <<"Basketball Team",
       [description |-> "Practice and compete in basketball tournaments",
        schedule |-> "Wednesdays and Fridays, 3:15 PM - 5:00 PM",
        schedule_details |-> [days |-> <<"Wednesday", "Friday">>, start_time |-> "15:15", end_time |-> "17:00"],
        max_participants |-> 15,
        participants |-> 5]>>,
     <<"Art Club",
       [description |-> "Explore various art techniques and create masterpieces",
        schedule |-> "Thursdays, 3:15 PM - 5:00 PM",
        schedule_details |-> [days |-> <<"Thursday">>, start_time |-> "15:15", end_time |-> "17:00"],
        max_participants |-> 15,
        participants |-> 6]>>,
     <<"Drama Club",
       [description |-> "Act, direct, and produce plays and performances",
        schedule |-> "Mondays and Wednesdays, 3:30 PM - 5:30 PM",
        schedule_details |-> [days |-> <<"Monday", "Wednesday">>, start_time |-> "15:30", end_time |-> "17:30"],
        max_participants |-> 20,
        participants |-> 7]>>,
     <<"Math Club",
       [description |-> "Solve challenging problems and prepare for math competitions",
        schedule |-> "Tuesdays, 7:15 AM - 8:00 AM",
        schedule_details |-> [days |-> <<"Tuesday">>, start_time |-> "07:15", end_time |-> "08:00"],
        max_participants |-> 10,
        participants |-> 8]>>,
     <<"Debate Team",
       [description |-> "Develop public speaking and argumentation skills",
        schedule |-> "Fridays, 3:30 PM - 5:30 PM",
        schedule_details |-> [days |-> <<"Friday">>, start_time |-> "15:30", end_time |-> "17:30"],
        max_participants |-> 12,
        participants |-> 9]>>,
     <<"Weekend Robotics Workshop",
       [description |-> "Build and program robots in our state-of-the-art workshop",
        schedule |-> "Saturdays, 10:00 AM - 2:00 PM",
        schedule_details |-> [days |-> <<"Saturday">>, start_time |-> "10:00", end_time |-> "14:00"],
        max_participants |-> 15,
        participants |-> 10]>>,
     <<"Science Olympiad",
       [description |-> "Weekend science competition preparation for regional and state events",
        schedule |-> "Saturdays, 1:00 PM - 4:00 PM",
        schedule_details |-> [days |-> <<"Saturday">>, start_time |-> "13:00", end_time |-> "16:00"],
        max_participants |-> 18,
        participants |-> 11]>>,
     <<"Sunday Chess Tournament",
       [description |-> "Weekly tournament for serious chess players with rankings",
        schedule |-> "Sundays, 2:00 PM - 5:00 PM",
        schedule_details |-> [days |-> <<"Sunday">>, start_time |-> "14:00", end_time |-> "17:00"],
        max_participants |-> 16,
        participants |-> 12]>>,
     <<"Manga Maniacs",
       [description |-> "Explore the fantastic stories of the most interesting characters from Japanese Manga (graphic novels).",
        schedule |-> "Tuesdays, 7:00 PM - 8:30 PM",
        schedule_details |-> [days |-> <<"Tuesday">>, start_time |-> "19:00", end_time |-> "20:30"],
        max_participants |-> 15,
        participants |-> 13]>>
  >>

\* hash_password (lines 120-123): an opaque Argon2 hash of the plaintext.
hash_password(password) == <<"argon2", password>>

initial_teachers ==
  << [username |-> "mrodriguez", display_name |-> "Ms. Rodriguez",
      password |-> hash_password("art123"), role |-> "teacher"],
     [username |-> "mchen", display_name |-> "Mr. Chen",
      password |-> hash_password("chess456"), role |-> "teacher"],
     [username |-> "principal", display_name |-> "Principal Martinez",
      password |-> hash_password("admin789"), role |-> "admin"] >>

VARIABLES
    pc,                     \* "import" while the module body has not run, then "ready"
    ping,                   \* outcome of the connection test of line 12: "pending", "ok", "failed"
    MONGODB_AVAILABLE,      \* module global of line 16/20; "unbound" before the import
    activities_collection,  \* module global of line 14/116: the handle, by what it is bound to
    teachers_collection,    \* module global of line 15/117
    storage,                \* MockCollection.storage of each fallback collection:
                            \*   the backing dict as its items <<key, dict reference>>, in insertion order
    dicts,                  \* heap of dict objects: reference -> [field -> value]
    lists,                  \* heap of list objects: reference -> sequence of str
    call,                   \* the last collection call: what was asked and what it returned
    nops,                   \* number of mutating calls issued so far
    init_calls,             \* number of init_database calls among them
    inserted,               \* the identities passed to insert_one so far, by collection
    mongo,                  \* the documents a MongoDB server holds after the same calls,
                            \*   by collection name
    real,                   \* what the real backend returns for the last call
    supported               \* every call so far is one both backends are specified for

vars == <<pc, ping, MONGODB_AVAILABLE, activities_collection, teachers_collection,
          storage, dicts, lists, call, nops, init_calls, inserted, mongo, real, supported>>

Which == {"activities", "teachers"}

\* The collection a caller names: activities_collection or teachers_collection.
Handle(which) ==
    IF which = "activities" THEN activities_collection ELSE teachers_collection

(***************************************************************************)
(* Python dict, as the sequence of its items in insertion order.           *)
(***************************************************************************)
DictKeys(od) == {od[i][1] : i \in 1..Len(od)}

DictIndex(od, k) == CHOOSE i \in 1..Len(od) : od[i][1] = k

\* od.get(k): the value under k, None when k is no key.
DictGet(od, k) == IF k \in DictKeys(od) THEN od[DictIndex(od, k)][2] ELSE None

\* od[k] = r: an existing key keeps its place, a new key goes last.
DictSet(od, k, r) ==
    IF k \in DictKeys(od)
    THEN [od EXCEPT ![DictIndex(od, k)] = <<k, r>>]
    ELSE Append(od, <<k, r>>)

\* query.get("_id") (lines 40, 97): the one-element sequence of the identity
\* asked for, the empty sequence for None.
QueryId(query) == IF "_id" \in DOMAIN query THEN <<query["_id"]>> ELSE <<>>

(***************************************************************************)
(* What a caller sees of a dict: its fields, every list field read through *)
(* to the list's elements.                                                 *)
(***************************************************************************)
Deep(d, ls) == [f \in DOMAIN d |-> IF f \in ListFields THEN ls[d[f]] ELSE d[f]]

(***************************************************************************)
(* MockCollection (lines 26-114).  st is self.storage, ds and ls the heap. *)
(***************************************************************************)
\* Mutant of count_documents: the query is a filter on the identity.
count_documents_filtered(st, query) ==
    IF QueryId(query) = <<>> THEN Len(st)
    ELSE Len(SelectSeq(st, LAMBDA item : item[1] = QueryId(query)[1]))

\* lines 30-31
count_documents(st, query) == Len(st)

\* Mutant of insert_one: a stored identity is deleted and inserted anew, so
\* that it moves to the end of the dict.
insert_one_moving(st, ds, document) ==
    Append(SelectSeq(st, LAMBDA item : item[1] # ds[document]["_id"]),
           <<ds[document]["_id"], document>>)

\* lines 33-35: the document object itself is stored, under its "_id".
insert_one(st, ds, document) == DictSet(st, ds[document]["_id"], document)

\* lines 37-41: the stored dict object itself, or None.
find_one(st, query) ==
    IF DOMAIN query = {} THEN None
    ELSE IF QueryId(query) = <<>> THEN None
    ELSE DictGet(st, QueryId(query)[1])

\* doc.get("schedule_details", {}).get(name, default) (lines 61, 68, 75, 91)
ScheduleDetail(doc, name, default) ==
    IF "schedule_details" \notin DOMAIN doc THEN default
    ELSE IF name \notin DOMAIN doc["schedule_details"] THEN default
    ELSE doc["schedule_details"][name]

\* Mutant of ConditionHolds: $in asks for every target day (all() for any())
\* and $gte is strict.
ConditionHoldsStrict(doc, condition_key, condition) ==
    IF condition_key = "schedule_details.days" THEN
        IF "$in" \in DOMAIN condition
        THEN \A i \in 1..Len(condition["$in"]) :
                 condition["$in"][i] \in Range(ScheduleDetail(doc, "days", <<>>))
        ELSE TRUE
    ELSE IF condition_key = "schedule_details.start_time" THEN
        IF "$gte" \in DOMAIN condition
        THEN StrLess(condition["$gte"], ScheduleDetail(doc, "start_time", "00:00"))
        ELSE TRUE
    ELSE IF condition_key = "schedule_details.end_time" THEN
        IF "$lte" \in DOMAIN condition
        THEN ~ StrLess(condition["$lte"], ScheduleDetail(doc, "end_time", "23:59"))
        ELSE TRUE
    ELSE TRUE

\* Mutant of ConditionHolds: a condition find does not know fails, as an
\* equality test on a field the document lacks would.
ConditionHoldsKnownOnly(doc, condition_key, condition) ==
    IF condition_key = "schedule_details.days" THEN
        IF "$in" \in DOMAIN condition
        THEN \E i \in 1..Len(condition["$in"]) :
                 condition["$in"][i] \in Range(ScheduleDetail(doc, "days", <<>>))
        ELSE FALSE
    ELSE IF condition_key = "schedule_details.start_time" THEN
        IF "$gte" \in DOMAIN condition
        THEN ~ StrLess(ScheduleDetail(doc, "start_time", "00:00"), condition["$gte"])
        ELSE FALSE
    ELSE IF condition_key = "schedule_details.end_time" THEN
        IF "$lte" \in DOMAIN condition
        THEN ~ StrLess(condition["$lte"], ScheduleDetail(doc, "end_time", "23:59"))
        ELSE FALSE
    ELSE FALSE

\* lines 56-78: one condition of the query against one stored document.
ConditionHolds(doc, condition_key, condition) ==
    IF condition_key = "schedule_details.days" THEN
        IF "$in" \in DOMAIN condition
        THEN LET target_days == condition["$in"]
                 doc_days == ScheduleDetail(doc, "days", <<>>)
             IN  \E i \in 1..Len(target_days) : target_days[i] \in Range(doc_days)
        ELSE TRUE
    ELSE IF condition_key = "schedule_details.start_time" THEN
        IF "$gte" \in DOMAIN condition
        THEN ~ StrLess(ScheduleDetail(doc, "start_time", "00:00"), condition["$gte"])
        ELSE TRUE
    ELSE IF condition_key = "schedule_details.end_time" THEN
        IF "$lte" \in DOMAIN condition
        THEN ~ StrLess(condition["$lte"], ScheduleDetail(doc, "end_time", "23:59"))
        ELSE TRUE
    ELSE TRUE

\* lines 55-80: matches stays True unless some condition fails.
Matches(doc, query) ==
    \A condition_key \in DOMAIN query :
        ConditionHolds(doc, condition_key, query[condition_key])

\* lines 48-49, 81-82: result_doc = dict(doc); result_doc['_id'] = key.
\* A shallow copy: its list fields are the stored document's list objects.
ResultDoc(doc, key) == ("_id" :> key) @@ doc

\* lines 43-85: the matching documents, in the order of self.storage.items().
\* An empty or absent query takes the first branch, which returns them all.
RECURSIVE FindFrom(_, _, _, _)
FindFrom(st, ds, query, i) ==
    IF i > Len(st) THEN <<>>
    ELSE LET key == st[i][1]
             doc == ds[st[i][2]]
         IN  (IF DOMAIN query = {} \/ Matches(doc, query)
              THEN <<ResultDoc(doc, key)>> ELSE <<>>)
             \o FindFrom(st, ds, query, i + 1)

find(st, ds, query) == FindFrom(st, ds, query, 1)

\* lines 87-94: the days of all documents, as a set, sorted.
aggregate(st, ds, pipeline) ==
    LET days == UNION {Range(ScheduleDetail(ds[st[i][2]], "days", <<>>)) : i \in 1..Len(st)}
        out  == sorted(days)
    IN  [i \in 1..Len(out) |-> ("_id" :> out[i])]

\* Mutant of RemoveFirst: every occurrence goes, as MongoDB's $pull does.
RemoveEvery(s, value) == SelectSeq(s, LAMBDA x : x # value)

\* Mutant of RemoveFirst: the last occurrence goes instead of the first.
RemoveLast(s, value) ==
    IF value \notin Range(s) THEN s
    ELSE LET i == CHOOSE i \in 1..Len(s) :
                      s[i] = value /\ \A j \in (i + 1)..Len(s) : s[j] # value
         IN  SubSeq(s, 1, i - 1) \o SubSeq(s, i + 1, Len(s))

\* list.remove(value) (line 110): the first occurrence goes, the rest keeps
\* its order; without an occurrence (ValueError, line 111) nothing changes.
RemoveFirst(s, value) ==
    IF value \notin Range(s) THEN s
    ELSE LET i == CHOOSE i \in 1..Len(s) :
                      s[i] = value /\ \A j \in 1..(i - 1) : s[j] # value
         IN  SubSeq(s, 1, i - 1) \o SubSeq(s, i + 1, Len(s))

\* line 100: self.storage[doc_id].update(update["$set"])
ApplySet(fields, ds, ls, ref) ==
    [dicts |-> [ds EXCEPT ![ref] = fields @@ @], lists |-> ls]

\* lines 102-105: for each pair, create the list when the field is missing,
\* then append to the list object the field holds.
RECURSIVE ApplyPush(_, _, _, _)
ApplyPush(items, ds, ls, ref) ==
    IF items = <<>> THEN [dicts |-> ds, lists |-> ls]
    ELSE LET field   == items[1][1]
             value   == items[1][2]
             missing == field \notin DOMAIN ds[ref]
             ds1 == IF missing
                    THEN [ds EXCEPT ![ref] = (field :> (Len(ls) + 1)) @@ @]
                    ELSE ds
             ls1 == IF missing THEN Append(ls, <<>>) ELSE ls
             ls2 == [ls1 EXCEPT ![ds1[ref][field]] = Append(@, value)]
         IN  ApplyPush(Tail(items), ds1, ls2, ref)

\* lines 107-112: for each pair whose field exists, remove the value from
\* the list object the field holds.
RECURSIVE ApplyPull(_, _, _, _)
ApplyPull(items, ds, ls, ref) ==
    IF items = <<>> THEN [dicts |-> ds, lists |-> ls]
    ELSE LET field == items[1][1]
             value == items[1][2]
             ls1 == IF field \in DOMAIN ds[ref]
                    THEN [ls EXCEPT ![ds[ref][field]] = RemoveFirst(@, value)]
                    ELSE ls
         IN  ApplyPull(Tail(items), ds, ls1, ref)

\* Mutant of ApplyUpdate: three independent ifs, so that every operator
\* the update holds is applied.
ApplyUpdateEvery(update, ds, ls, ref) ==
    LET a == IF "$set" \in DOMAIN update
             THEN ApplySet(update["$set"], ds, ls, ref)
             ELSE [dicts |-> ds, lists |-> ls]
        b == IF "$push" \in DOMAIN update
             THEN ApplyPush(update["$push"], a.dicts, a.lists, ref)
             ELSE a
    IN  IF "$pull" \in DOMAIN update
        THEN ApplyPull(update["$pull"], b.dicts, b.lists, ref)
        ELSE b

\* The three branches of lines 99-112.
ApplyUpdate(update, ds, ls, ref) ==
    IF "$set" \in DOMAIN update
        THEN ApplySet(update["$set"], ds, ls, ref)
    ELSE IF "$push" \in DOMAIN update
        THEN ApplyPush(update["$push"], ds, ls, ref)
    ELSE IF "$pull" \in DOMAIN update
        THEN ApplyPull(update["$pull"], ds, ls, ref)
    ELSE [dicts |-> ds, lists |-> ls]

\* Mutant of update_one: the result is built once, after the if, and always
\* reports one modification.
update_one_always_one(st, ds, ls, query, update) ==
    LET doc_id == QueryId(query)
    IN  IF doc_id # <<>> /\ doc_id[1] \in DictKeys(st)
        THEN LET after == ApplyUpdate(update, ds, ls, DictGet(st, doc_id[1]))
             IN  [dicts |-> after.dicts, lists |-> after.lists, modified_count |-> 1]
        ELSE [dicts |-> ds, lists |-> ls, modified_count |-> 1]

\* Mutant of update_one: modified_count tells whether the document changed,
\* as MongoDB's does.
update_one_counts_changes(st, ds, ls, query, update) ==
    LET doc_id == QueryId(query)
    IN  IF doc_id # <<>> /\ doc_id[1] \in DictKeys(st)
        THEN LET ref   == DictGet(st, doc_id[1])
                 after == ApplyUpdate(update, ds, ls, ref)
             IN  [dicts |-> after.dicts, lists |-> after.lists,
                  modified_count |->
                      IF Deep(after.dicts[ref], after.lists) = Deep(ds[ref], ls)
                      THEN 0 ELSE 1]
        ELSE [dicts |-> ds, lists |-> ls, modified_count |-> 0]

\* lines 96-114: the heap after the call and the modified_count returned.
update_one(st, ds, ls, query, update) ==
    LET doc_id == QueryId(query)
    IN  IF doc_id # <<>> /\ doc_id[1] \in DictKeys(st)
        THEN LET after == ApplyUpdate(update, ds, ls, DictGet(st, doc_id[1]))
             IN  [dicts |-> after.dicts, lists |-> after.lists, modified_count |-> 1]
        ELSE [dicts |-> ds, lists |-> ls, modified_count |-> 0]

(***************************************************************************)
(* A dict literal built by a caller: a new dict object, and a new list     *)
(* object for every list it holds.  `fields` are the list fields still to  *)
(* place on the heap.                                                      *)
(***************************************************************************)
RECURSIVE NewDict(_, _, _)
NewDict(document, fields, ls) ==
    IF fields = <<>> THEN [dict |-> document, lists |-> ls]
    ELSE IF Head(fields) \in DOMAIN document
    THEN NewDict([document EXCEPT ![Head(fields)] = Len(ls) + 1],
                 Tail(fields), Append(ls, document[Head(fields)]))
    ELSE NewDict(document, Tail(fields), ls)

(***************************************************************************)
(* init_database (lines 125-136) on the fallback.                          *)
(***************************************************************************)
\* lines 130-131: insert_one({"_id": name, **details}) for every catalog
\* entry.  The new dict takes the values of details as they are: its
\* participants is the catalog's own list object.
RECURSIVE SeedActivities(_, _, _)
SeedActivities(items, st, ds) ==
    IF items = <<>> THEN [storage |-> st, dicts |-> ds]
    ELSE LET name    == items[1][1]
             details == items[1][2]
             ds1     == Append(ds, details @@ ("_id" :> name))
         IN  SeedActivities(Tail(items), insert_one(st, ds1, Len(ds1)), ds1)

\* lines 135-136: insert_one({"_id": teacher["username"], **teacher})
RECURSIVE SeedTeachers(_, _, _)
SeedTeachers(teachers, st, ds) ==
    IF teachers = <<>> THEN [storage |-> st, dicts |-> ds]
    ELSE LET teacher == teachers[1]
             ds1     == Append(ds, teacher @@ ("_id" :> teacher["username"]))
         IN  SeedTeachers(Tail(teachers), insert_one(st, ds1, Len(ds1)), ds1)

\* Mutant of init_database: the catalog is inserted without looking at the count.
init_database_unguarded(sa, stt, ds) ==
    LET a == SeedActivities(initial_activities, sa, ds)
        t == SeedTeachers(initial_teachers, stt, a.dicts)
    IN  [activities |-> a.storage, teachers |-> t.storage, dicts |-> t.dicts]

\* lines 128-136: each collection is seeded when it counts no document.
init_database(sa, stt, ds) ==
    LET a == IF count_documents(sa, <<>>) = 0
             THEN SeedActivities(initial_activities, sa, ds)
             ELSE [storage |-> sa, dicts |-> ds]
        t == IF count_documents(stt, <<>>) = 0
             THEN SeedTeachers(initial_teachers, stt, a.dicts)
             ELSE [storage |-> stt, dicts |-> a.dicts]
    IN  [activities |-> a.storage, teachers |-> t.storage, dicts |-> t.dicts]

(***************************************************************************)
(* The real backend: a MongoDB collection reached through pymongo          *)
(* (lines 10-15).  Its code is not part of the repository; it is modelled  *)
(* from the documented behaviour of the server and the driver, for the     *)
(* calls the application makes.  A collection is the sequence of its       *)
(* documents in natural order; a document is a value (its lists are part   *)
(* of it, nothing is shared).                                              *)
(***************************************************************************)
MongoIds(coll) == {coll[i]["_id"] : i \in 1..Len(coll)}

MongoIndex(coll, id) == CHOOSE i \in 1..Len(coll) : coll[i]["_id"] = id

Mongo_count_documents(coll, query) == Len(coll)

\* A second document with a stored _id is refused (DuplicateKeyError).
Mongo_insert_one(coll, document) ==
    IF document["_id"] \in MongoIds(coll)
    THEN [docs |-> coll, exc |-> "DuplicateKeyError"]
    ELSE [docs |-> Append(coll, document), exc |-> ""]

\* A comparison never matches a document that lacks the field.
MongoHas(doc, name) ==
    "schedule_details" \in DOMAIN doc /\ name \in DOMAIN doc["schedule_details"]

MongoConditionHolds(doc, condition_key, condition) ==
    IF condition_key = "schedule_details.days" /\ "$in" \in DOMAIN condition THEN
        /\ MongoHas(doc, "days")
        /\ \E i \in 1..Len(condition["$in"]) :
               condition["$in"][i] \in Range(doc["schedule_details"]["days"])
    ELSE IF condition_key = "schedule_details.start_time" /\ "$gte" \in DOMAIN condition THEN
        /\ MongoHas(doc, "start_time")
        /\ ~ StrLess(doc["schedule_details"]["start_time"], condition["$gte"])
    ELSE IF condition_key = "schedule_details.end_time" /\ "$lte" \in DOMAIN condition THEN
        /\ MongoHas(doc, "end_time")
        /\ ~ StrLess(condition["$lte"], doc["schedule_details"]["end_time"])
    ELSE TRUE

RECURSIVE MongoFindFrom(_, _, _)
MongoFindFrom(coll, query, i) ==
    IF i > Len(coll) THEN <<>>
    ELSE (IF \A k \in DOMAIN query : MongoConditionHolds(coll[i], k, query[k])
          THEN <<coll[i]>> ELSE <<>>)
         \o MongoFindFrom(coll, query, i + 1)

Mongo_find(coll, query) == MongoFindFrom(coll, query, 1)

\* The pipeline the application sends: $unwind schedule_details.days,
\* $group by the day, $sort ascending.
Mongo_aggregate(coll, pipeline) ==
    LET days == UNION {IF MongoHas(coll[i], "days")
                       THEN Range(coll[i]["schedule_details"]["days"])
                       ELSE {} : i \in 1..Len(coll)}
        out  == sorted(days)
    IN  [i \in 1..Len(out) |-> ("_id" :> out[i])]

\* $push: append to the array, creating it when the field is missing.
RECURSIVE MongoPush(_, _)
MongoPush(items, doc) ==
    IF items = <<>> THEN doc
    ELSE LET field == items[1][1]
             old   == IF field \in DOMAIN doc THEN doc[field] ELSE <<>>
         IN  MongoPush(Tail(items), (field :> Append(old, items[1][2])) @@ doc)

\* $pull: every element equal to the value goes.
RemoveAll(s, value) == SelectSeq(s, LAMBDA x : x # value)

RECURSIVE MongoPull(_, _)
MongoPull(items, doc) ==
    IF items = <<>> THEN doc
    ELSE LET field == items[1][1]
         IN  MongoPull(Tail(items),
                       IF field \in DOMAIN doc
                       THEN [doc EXCEPT ![field] = RemoveAll(@, items[1][2])]
                       ELSE doc)

\* Every operator of the update document is applied.
MongoApply(doc, update) ==
    LET d1 == IF "$set" \in DOMAIN update THEN update["$set"] @@ doc ELSE doc
        d2 == IF "$push" \in DOMAIN update THEN MongoPush(update["$push"], d1) ELSE d1
    IN  IF "$pull" \in DOMAIN update THEN MongoPull(update["$pull"], d2) ELSE d2

\* The document a filter selects: the index of the one with the _id asked
\* for, of the first one for an empty filter, 0 when there is none.
MongoTarget(coll, query) ==
    IF DOMAIN query = {} THEN (IF coll = <<>> THEN 0 ELSE 1)
    ELSE IF QueryId(query) # <<>> /\ QueryId(query)[1] \in MongoIds(coll)
    THEN MongoIndex(coll, QueryId(query)[1])
    ELSE 0

\* The driver refuses an update document without operators (ValueError);
\* the server refuses to change _id (WriteError); modified_count counts
\* the documents the update actually changed.
Mongo_update_one(coll, query, update) ==
    LET i == MongoTarget(coll, query)
    IN  IF DOMAIN update = {}
        THEN [docs |-> coll, modified_count |-> 0, exc |-> "ValueError"]
        ELSE IF i = 0
        THEN [docs |-> coll, modified_count |-> 0, exc |-> ""]
        ELSE LET new == MongoApply(coll[i], update)
             IN  IF new["_id"] # coll[i]["_id"]
                 THEN [docs |-> coll, modified_count |-> 0, exc |-> "WriteError"]
                 ELSE [docs |-> [coll EXCEPT ![i] = new],
                       modified_count |-> IF new = coll[i] THEN 0 ELSE 1,
                       exc |-> ""]

\* The one-element sequence of the document found, the empty one for None.
Mongo_find_one(coll, query) ==
    IF MongoTarget(coll, query) = 0 THEN <<>> ELSE <<coll[MongoTarget(coll, query)]>>

Globals == <<pc, ping, MONGODB_AVAILABLE, activities_collection, teachers_collection>>

Unbound == [kind |-> "unbound", target |-> ""]

\* A handle on the fallback is a MockCollection over one of the two dicts.
IsMock(which) == Handle(which).kind = "MockCollection"

Storage(which) == storage[Handle(which).target]

Init ==
    /\ pc = "import"
    /\ ping = "pending"
    /\ MONGODB_AVAILABLE = "unbound"
    /\ activities_collection = Unbound
    /\ teachers_collection = Unbound
    /\ storage = <<>>
    /\ dicts = <<>>
    /\ lists = <<>>
    /\ call = [op |-> "none"]
    /\ nops = 0
    /\ init_calls = 0
    /\ inserted = [w \in Which |-> {}]
    /\ mongo = [w \in Which |-> <<>>]
    /\ real = [seen |-> None, exc |-> ""]
    /\ supported = TRUE

\* Mutant of ImportModule: the except branch does not reset the flag the
\* try branch sets.
ImportModuleFlagKept(ping_ok) ==
    /\ pc = "import"
    /\ pc' = "ready"
    /\ MONGODB_AVAILABLE' = "True"
    /\ IF ping_ok
       THEN /\ ping' = "ok"
            /\ activities_collection' = [kind |-> "Collection", target |-> "activities"]
            /\ teachers_collection' = [kind |-> "Collection", target |-> "teachers"]
            /\ storage' = storage
       ELSE /\ ping' = "failed"
            /\ activities_collection' =
                   [kind |-> "MockCollection", target |-> "_in_memory_activities"]
            /\ teachers_collection' =
                   [kind |-> "MockCollection", target |-> "_in_memory_teachers"]
            /\ storage' = [d \in {"_in_memory_activities", "_in_memory_teachers"} |-> <<>>]
    /\ lists' = initial_participants
    /\ UNCHANGED <<dicts, call, nops, init_calls, inserted, mongo, real, supported>>

\* Mutant of ImportModule: the except branch builds both MockCollections
\* over the one dict _in_memory_activities.
ImportModuleOneDict(ping_ok) ==
    /\ pc = "import"
    /\ pc' = "ready"
    /\ IF ping_ok
       THEN /\ ping' = "ok"
            /\ MONGODB_AVAILABLE' = "True"
            /\ activities_collection' = [kind |-> "Collection", target |-> "activities"]
            /\ teachers_collection' = [kind |-> "Collection", target |-> "teachers"]
            /\ storage' = storage
       ELSE /\ ping' = "failed"
            /\ MONGODB_AVAILABLE' = "False"
            /\ activities_collection' =
                   [kind |-> "MockCollection", target |-> "_in_memory_activities"]
            /\ teachers_collection' =
                   [kind |-> "MockCollection", target |-> "_in_memory_activities"]
            /\ storage' = [d \in {"_in_memory_activities", "_in_memory_teachers"} |-> <<>>]
    /\ lists' = initial_participants
    /\ UNCHANGED <<dicts, call, nops, init_calls, inserted, mongo, real, supported>>

(***************************************************************************)
(* Import of the module (lines 9-23, 116-117, 139-304): the ping either    *)
(* succeeds or raises, and the except branch builds the fallback.          *)
(***************************************************************************)
ImportModule(ping_ok) ==
    /\ pc = "import"
    /\ pc' = "ready"
    /\ IF ping_ok
       THEN /\ ping' = "ok"
            /\ MONGODB_AVAILABLE' = "True"
            /\ activities_collection' = [kind |-> "Collection", target |-> "activities"]
            /\ teachers_collection' = [kind |-> "Collection", target |-> "teachers"]
            /\ storage' = storage
       ELSE /\ ping' = "failed"
            /\ MONGODB_AVAILABLE' = "False"
            /\ activities_collection' =
                   [kind |-> "MockCollection", target |-> "_in_memory_activities"]
            /\ teachers_collection' =
                   [kind |-> "MockCollection", target |-> "_in_memory_teachers"]
            /\ storage' = [d \in {"_in_memory_activities", "_in_memory_teachers"} |-> <<>>]
    /\ lists' = initial_participants
    /\ UNCHANGED <<dicts, call, nops, init_calls, inserted, mongo, real, supported>>

\* The result documents of find as a caller reads them.
DeepAll(docs, ls) == [i \in 1..Len(docs) |-> Deep(docs[i], ls)]

\* find_one's result as a caller reads it: <<document>>, or <<>> for None.
DeepRef(r, ds, ls) == IF r = None THEN <<>> ELSE <<Deep(ds[r], ls)>>

CountDocuments(which, query) ==
    /\ pc = "ready"
    /\ LET m == Mongo_count_documents(mongo[which], query)
           n == IF IsMock(which) THEN count_documents(Storage(which), query) ELSE m
       IN  /\ call' = [op |-> "count_documents", which |-> which, arg |-> query,
                       ret |-> n, seen |-> n]
           /\ real' = [seen |-> m, exc |-> ""]
    /\ UNCHANGED <<Globals, storage, dicts, lists, nops, init_calls, inserted, mongo, supported>>

FindOne(which, query) ==
    /\ pc = "ready"
    /\ LET m == Mongo_find_one(mongo[which], query)
       IN  /\ real' = [seen |-> m, exc |-> ""]
           /\ IF IsMock(which)
              THEN LET r == find_one(Storage(which), query)
                   IN  call' = [op |-> "find_one", which |-> which, arg |-> query,
                                ret |-> r, seen |-> DeepRef(r, dicts, lists)]
              ELSE call' = [op |-> "find_one", which |-> which, arg |-> query,
                            ret |-> m, seen |-> m]
    /\ supported' = (supported /\ "_id" \in DOMAIN query)
    /\ UNCHANGED <<Globals, storage, dicts, lists, nops, init_calls, inserted, mongo>>

\* The one operator find acts on for each field path it knows
\* (lines 57-59, 65-67, 72-74).
Operator ==
    ("schedule_details.days" :> "$in")
    @@ ("schedule_details.start_time" :> "$gte")
    @@ ("schedule_details.end_time" :> "$lte")

\* Every condition of the query is one find acts on.
AllRecognized(query) ==
    \A k \in DOMAIN query :
        k \in DOMAIN Operator /\ DOMAIN query[k] = {Operator[k]}

Find(which, query) ==
    /\ pc = "ready"
    /\ LET m == Mongo_find(mongo[which], query)
       IN  /\ real' = [seen |-> m, exc |-> ""]
           /\ IF IsMock(which)
              THEN LET r == find(Storage(which), dicts, query)
                   IN  call' = [op |-> "find", which |-> which, arg |-> query,
                                ret |-> r, seen |-> DeepAll(r, lists)]
              ELSE call' = [op |-> "find", which |-> which, arg |-> query,
                            ret |-> m, seen |-> m]
    /\ supported' = (supported /\ AllRecognized(query))
    /\ UNCHANGED <<Globals, storage, dicts, lists, nops, init_calls, inserted, mongo>>

Aggregate(which, pipeline) ==
    /\ pc = "ready"
    /\ LET m == Mongo_aggregate(mongo[which], pipeline)
           r == IF IsMock(which) THEN aggregate(Storage(which), dicts, pipeline) ELSE m
       IN  /\ call' = [op |-> "aggregate", which |-> which, arg |-> pipeline,
                       ret |-> r, seen |-> r]
           /\ real' = [seen |-> m, exc |-> ""]
    /\ UNCHANGED <<Globals, storage, dicts, lists, nops, init_calls, inserted, mongo, supported>>

\* Before the call: what the target document of an update looks like, as
\* <<document>>, or <<>> when the identity is not stored.
Before(which, query) ==
    IF IsMock(which)
    THEN DeepRef(find_one(Storage(which), query), dicts, lists)
    ELSE Mongo_find_one(mongo[which], query)

InsertOne(which, document) ==
    /\ pc = "ready"
    /\ nops < MaxOps
    /\ nops' = nops + 1
    /\ LET m == Mongo_insert_one(mongo[which], document)
       IN  /\ mongo' = [mongo EXCEPT ![which] = m.docs]
           /\ real' = [seen |-> None, exc |-> m.exc]
           /\ supported' = (supported /\ m.exc = "")
           /\ call' = [op |-> "insert_one", which |-> which, arg |-> document,
                       before |-> Before(which, ("_id" :> document["_id"])),
                       ret |-> None, seen |-> None,
                       exc |-> IF IsMock(which) THEN "" ELSE m.exc]
    /\ IF IsMock(which)
       THEN LET new == NewDict(document, <<"participants">>, lists)
                ds1 == Append(dicts, new.dict)
            IN  /\ dicts' = ds1
                /\ lists' = new.lists
                /\ storage' = [storage EXCEPT ![Handle(which).target] =
                                   insert_one(@, ds1, Len(ds1))]
       ELSE UNCHANGED <<storage, dicts, lists>>
    /\ inserted' = [inserted EXCEPT ![which] = @ \cup {document["_id"]}]
    /\ UNCHANGED <<Globals, init_calls>>

\* The update operators the fallback knows, each used alone.
OneOperator(update) ==
    Cardinality(DOMAIN update) = 1 /\ DOMAIN update \subseteq {"$set", "$push", "$pull"}

\* The lists a $push would extend still have room (the bound of the model).
PushFits(which, query, update) ==
    IF "$push" \notin DOMAIN update THEN TRUE
    ELSE IF Before(which, query) = <<>> THEN TRUE
    ELSE \A i \in 1..Len(update["$push"]) :
            LET field == update["$push"][i][1]
                doc   == Before(which, query)[1]
            IN  field \in DOMAIN doc => Len(doc[field]) < MaxLen

\* When the call before this one was an update_one with the same query on
\* the same collection: <<its update and the document before it>>.
Prior(which, query) ==
    IF call.op = "update_one" /\ call.which = which /\ call.arg = query
    THEN <<[update |-> call.update, before |-> call.before]>>
    ELSE <<>>

UpdateOne(which, query, update) ==
    /\ pc = "ready"
    /\ nops < MaxOps
    /\ PushFits(which, query, update)
    /\ nops' = nops + 1
    /\ LET m == Mongo_update_one(mongo[which], query, update)
       IN  /\ mongo' = [mongo EXCEPT ![which] = m.docs]
           /\ real' = [seen |-> m.modified_count, exc |-> m.exc]
           /\ supported' = (supported /\ OneOperator(update) /\ "_id" \in DOMAIN query)
           /\ IF IsMock(which)
              THEN LET r == update_one(Storage(which), dicts, lists, query, update)
                   IN  /\ dicts' = r.dicts
                       /\ lists' = r.lists
                       /\ call' = [op |-> "update_one", which |-> which, arg |-> query,
                                   update |-> update, before |-> Before(which, query),
                                   prior |-> Prior(which, query),
                                   ret |-> r.modified_count, seen |-> r.modified_count,
                                   exc |-> ""]
              ELSE /\ UNCHANGED <<dicts, lists>>
                   /\ call' = [op |-> "update_one", which |-> which, arg |-> query,
                               update |-> update, before |-> Before(which, query),
                               prior |-> Prior(which, query),
                               ret |-> m.modified_count, seen |-> m.modified_count,
                               exc |-> m.exc]
    /\ UNCHANGED <<Globals, storage, init_calls, inserted>>

\* init_database against MongoDB: the same two loops, on documents that
\* are copies of the catalog entries.
RECURSIVE MongoSeed(_, _)
MongoSeed(documents, coll) ==
    IF documents = <<>> THEN coll
    ELSE MongoSeed(Tail(documents), Mongo_insert_one(coll, documents[1]).docs)

ActivityDocuments ==
    [i \in 1..Len(initial_activities) |->
        Deep(initial_activities[i][2] @@ ("_id" :> initial_activities[i][1]),
             initial_participants)]

TeacherDocuments ==
    [i \in 1..Len(initial_teachers) |->
        initial_teachers[i] @@ ("_id" :> initial_teachers[i]["username"])]

Mongo_init_database(db) ==
    [activities |-> IF Mongo_count_documents(db["activities"], <<>>) = 0
                    THEN MongoSeed(ActivityDocuments, db["activities"])
                    ELSE db["activities"],
     teachers   |-> IF Mongo_count_documents(db["teachers"], <<>>) = 0
                    THEN MongoSeed(TeacherDocuments, db["teachers"])
                    ELSE db["teachers"]]

\* The identities init_database passes to insert_one when it seeds a
\* collection (lines 131, 136).
SeedIds(which) ==
    IF which = "activities"
    THEN {initial_activities[i][1] : i \in 1..Len(initial_activities)}
    ELSE {initial_teachers[i]["username"] : i \in 1..Len(initial_teachers)}

\* <collection>.count_documents({}) as init_database calls it (lines 129, 134).
Count(which) ==
    IF IsMock(which)
    THEN count_documents(Storage(which), <<>>)
    ELSE Mongo_count_documents(mongo[which], <<>>)

InitDatabase ==
    /\ pc = "ready"
    /\ nops < MaxOps
    /\ nops' = nops + 1
    /\ init_calls' = init_calls + 1
    /\ mongo' = Mongo_init_database(mongo)
    /\ real' = [seen |-> None, exc |-> ""]
    /\ call' = [op |-> "init_database", which |-> "both", arg |-> <<>>,
                ret |-> None, seen |-> None]
    /\ IF IsMock("activities")
       THEN LET r == init_database(Storage("activities"), Storage("teachers"), dicts)
            IN  /\ storage' = [storage EXCEPT
                                   ![Handle("activities").target] = r.activities,
                                   ![Handle("teachers").target] = r.teachers]
                /\ dicts' = r.dicts
       ELSE UNCHANGED <<storage, dicts>>
    /\ inserted' = [w \in Which |->
                        inserted[w] \cup (IF Count(w) = 0 THEN SeedIds(w) ELSE {})]
    /\ UNCHANGED <<Globals, lists, supported>>

(***************************************************************************)
(* The calls the model issues.                                             *)
(***************************************************************************)
Id(k) == ("_id" :> k)

Documents(which) ==
    IF which = "activities" THEN
      << Id("Chess Club") @@
           [schedule_details |-> [days |-> <<"Monday", "Friday">>,
                                  start_time |-> "15:15", end_time |-> "16:45"],
            participants |-> <<"x@y.edu", "michael@mergington.edu", "x@y.edu">>],
         Id("Study Hall") @@
           [schedule_details |-> [days |-> <<"Sunday", "Friday">>]],
         Id("Study Hall") @@
           [max_participants |-> 5, participants |-> <<"x@y.edu">>] >>
    ELSE
      << Id("mchen") @@
           [username |-> "mchen", display_name |-> "Mr. Chen",
            password |-> hash_password("chess456"), role |-> "teacher"] >>

Set(fields) == ("$set" :> fields)
Push(field, value) == ("$push" :> << <<field, value>> >>)
Pull(field, value) == ("$pull" :> << <<field, value>> >>)

\* <<query, update>> pairs
Updates(which) ==
    IF which = "activities" THEN
      << <<Id("Chess Club"), Set([max_participants |-> 12])>>,
         <<Id("Chess Club"), Set(Id("Study Hall"))>>,
         <<Id("Chess Club"), Push("participants", "x@y.edu")>>,
         <<Id("Chess Club"), Pull("participants", "michael@mergington.edu")>>,
         <<Id("Chess Club"), Pull("participants", "x@y.edu")>>,
         <<Id("Chess Club"), <<>> >>,
         <<Id("Chess Club"), Set([max_participants |-> 5]) @@ Push("participants", "x@y.edu")>>,
         <<Id("Chess Club"), Push("participants", "x@y.edu")
                             @@ Pull("participants", "michael@mergington.edu")>>,
         <<Id("Chess Club"), Set([max_participants |-> 5])
                             @@ Push("participants", "x@y.edu")
                             @@ Pull("participants", "michael@mergington.edu")>>,
         <<Id("Study Hall"), Push("participants", "x@y.edu")>>,
         <<Id("Study Hall"), Pull("participants", "x@y.edu")>>,
         << <<>>, Push("participants", "x@y.edu")>> >>
    ELSE
      << <<Id("mchen"), Set([role |-> "admin"])>> >>

In(days) == ("$in" :> days)
Gte(t) == ("$gte" :> t)
Lte(t) == ("$lte" :> t)

Queries(which) ==
    IF which = "activities" THEN
      << <<>>,
         ("schedule_details.days" :> In(<<"Friday">>))
            @@ ("schedule_details.start_time" :> Gte("12:00")),
         ("schedule_details.start_time" :> Gte("00:00")),
         ("schedule_details.days" :> In(<<"Sunday", "Tuesday">>))
            @@ ("schedule_details.end_time" :> Lte("17:00")),
         ("category" :> "Sports"),
         ("schedule_details.start_time" :> Lte("12:00")),
         ("schedule_details.days" :> In(<<"Friday">>))
            @@ ("schedule_details.start_time" :> (Gte("12:00") @@ Lte("07:00")))
            @@ ("schedule_details.end_time" :> Gte("23:00"))
            @@ ("category" :> "Sports") >>
    ELSE
      << <<>> >>

Lookups(which) ==
    IF which = "activities"
    THEN << Id("Chess Club"), Id("Study Hall"), <<>> >>
    ELSE << Id("mchen") >>

Next ==
    \/ \E ping_ok \in BOOLEAN : ImportModule(ping_ok)
    \/ InitDatabase
    \/ \E which \in Which : \E i \in DOMAIN Documents(which) :
           InsertOne(which, Documents(which)[i])
    \/ \E which \in Which : \E i \in DOMAIN Updates(which) :
           UpdateOne(which, Updates(which)[i][1], Updates(which)[i][2])
    \/ \E which \in Which : \E i \in DOMAIN Queries(which) :
           Find(which, Queries(which)[i])
    \/ \E which \in Which : \E i \in DOMAIN Lookups(which) :
           FindOne(which, Lookups(which)[i])
    \/ \E which \in Which : Aggregate(which, <<>>)
    \/ \E which \in Which : CountDocuments(which, <<>>)

Spec == Init /\ [][Next]_vars

(***************************************************************************)
(* Properties.                                                             *)
(***************************************************************************)
Emails == {"x@y.edu", "michael@mergington.edu"}

Fallback == pc = "ready" /\ MONGODB_AVAILABLE = "False"

\* The last call was update_one on a fallback collection.
MockUpdate == Fallback /\ call.op = "update_one" /\ IsMock(call.which)

\* The stored document the last update_one addressed, as a caller reads it now.
Target == Deep(dicts[DictGet(Storage(call.which), call.arg["_id"])], lists)

\* The update document holds the one operator op with the one pair <<field, value>>.
IsSingle(update, op, field, value) ==
    DOMAIN update = {op} /\ update[op] = << <<field, value>> >>

\* The last two calls were $push of v, then $pull of v, on participants of
\* one stored document that had the field.
PushedThenPulled(v) ==
    /\ MockUpdate
    /\ call.prior # <<>>
    /\ call.prior[1].before # <<>>
    /\ "participants" \in DOMAIN call.prior[1].before[1]
    /\ IsSingle(call.prior[1].update, "$push", "participants", v)
    /\ IsSingle(call.update, "$pull", "participants", v)

\* No occurrence of v in s is followed by another element.
OnlyTrailing(s, v) ==
    \A i, j \in 1..Len(s) : (i < j /\ s[i] = v) => s[j] = v

\* C1, as claimed: $push of v followed by $pull of v leaves participants as
\* it was before the two calls, whatever the sequence held.
C1_RoundTripAnySequence ==
    \A v \in Emails :
        PushedThenPulled(v) =>
            Target["participants"] = call.prior[1].before[1]["participants"]

\* C1, amended: $push of v followed by $pull of v leaves participants as it
\* was before the two calls when no occurrence of v in it was followed by
\* another element (so whenever v was not in it).
C1_RoundTripTrailing ==
    \A v \in Emails :
        (/\ PushedThenPulled(v)
         /\ OnlyTrailing(call.prior[1].before[1]["participants"], v))
        => Target["participants"] = call.prior[1].before[1]["participants"]

\* C1 witness: x@y.edu was pushed onto and pulled from a non-empty
\* participants that did not hold it, and the list is back as it was.
C1_Witness ==
    /\ PushedThenPulled("x@y.edu")
    /\ call.prior[1].before[1]["participants"] # <<>>
    /\ "x@y.edu" \notin Range(call.prior[1].before[1]["participants"])
    /\ Target["participants"] = call.prior[1].before[1]["participants"]

C3_IdentityImmutable ==
    Fallback =>
        \A which \in Which : \A i \in 1..Len(Storage(which)) :
            LET k     == Storage(which)[i][1]
                found == dicts[find_one(Storage(which), Id(k))]
                listed == find(Storage(which), dicts, <<>>)[i]
            IN  found["_id"] = k /\ listed["_id"] = found["_id"]

\* A step that is a call of init_database on the fallback.
MockInitStep == Fallback /\ init_calls' = init_calls + 1

\* C4: on the fallback, init_database inserts into a collection only when
\* the collection is empty, and once init_database has run, a later call
\* inserts nothing and leaves both counts as they were.
C4_IdempotentSeeding ==
    [][MockInitStep =>
         /\ \A which \in Which :
                Len(Storage(which)) # 0 =>
                    storage'[Handle(which).target] = Storage(which)
         /\ init_calls > 0 =>
                /\ storage' = storage /\ dicts' = dicts /\ lists' = lists
                /\ \A which \in Which :
                       count_documents(storage'[Handle(which).target], <<>>)
                           = count_documents(Storage(which), <<>>)
      ]_vars

\* C4 witness: init_database has been called a second time, after an
\* update, on collections seeded from the catalog.
C4_Witness ==
    /\ Fallback
    /\ init_calls = 2
    /\ nops = 3
    /\ call.op = "init_database"
    /\ count_documents(Storage("activities"), <<>>) = Len(initial_activities)
    /\ count_documents(Storage("teachers"), <<>>) = Len(initial_teachers)

\* The value a document holds at schedule_details.<name>, or the default.
Detail(doc, name, default) ==
    IF "schedule_details" \in DOMAIN doc /\ name \in DOMAIN doc["schedule_details"]
    THEN doc["schedule_details"][name]
    ELSE default

\* a >= b for strings
AtLeast(a, b) == a = b \/ StrLess(b, a)

\* The document satisfies every recognized condition the query supplies.
Satisfies(doc, query) ==
    /\ ("schedule_details.days" \in DOMAIN query
            /\ "$in" \in DOMAIN query["schedule_details.days"])
       => Range(Detail(doc, "days", <<>>))
              \cap Range(query["schedule_details.days"]["$in"]) # {}
    /\ ("schedule_details.start_time" \in DOMAIN query
            /\ "$gte" \in DOMAIN query["schedule_details.start_time"])
       => AtLeast(Detail(doc, "start_time", "00:00"),
                  query["schedule_details.start_time"]["$gte"])
    /\ ("schedule_details.end_time" \in DOMAIN query
            /\ "$lte" \in DOMAIN query["schedule_details.end_time"])
       => AtLeast(query["schedule_details.end_time"]["$lte"],
                  Detail(doc, "end_time", "23:59"))

\* The items of a fallback collection whose documents satisfy the query,
\* in the order of the collection.
Hits(which, query) ==
    SelectSeq(Storage(which), LAMBDA item : Satisfies(dicts[item[2]], query))

\* C5: find on the fallback returns exactly the stored documents that
\* satisfy every recognized condition of the query, in the order of the
\* collection, each with its identity as _id and its other fields as
\* stored; an empty query returns every document.
C5_FindExact ==
    (Fallback /\ call.op = "find" /\ IsMock(call.which)) =>
        LET hits == Hits(call.which, call.arg)
        IN  /\ Len(call.ret) = Len(hits)
            /\ \A i \in 1..Len(hits) :
                   /\ call.ret[i]["_id"] = hits[i][1]
                   /\ DOMAIN call.ret[i] = DOMAIN dicts[hits[i][2]] \cup {"_id"}
                   /\ \A f \in DOMAIN dicts[hits[i][2]] \ {"_id"} :
                          call.ret[i][f] = dicts[hits[i][2]][f]
            /\ DOMAIN call.arg = {} => Len(call.ret) = Len(Storage(call.which))

\* C5 witness: on the seeded activities, find for Friday and a start at or
\* after 12:00 returned Chess Club, Basketball Team and Debate Team, and
\* left out Morning Fitness, which meets on Friday but starts at 06:30.
C5_Witness ==
    /\ Fallback
    /\ call.op = "find"
    /\ call.which = "activities"
    /\ DOMAIN call.arg = {"schedule_details.days", "schedule_details.start_time"}
    /\ "Morning Fitness" \in DictKeys(Storage("activities"))
    /\ [i \in 1..Len(call.ret) |-> call.ret[i]["_id"]]
           = <<"Chess Club", "Basketball Team", "Debate Team">>

\* A step that is a call of update_one on a fallback collection.
MockUpdateStep ==
    /\ Fallback
    /\ nops' = nops + 1
    /\ call'.op = "update_one"
    /\ IsMock(call'.which)

\* The query names an identity the collection stores.
Known(which, query) ==
    QueryId(query) # <<>> /\ QueryId(query)[1] \in DictKeys(Storage(which))

\* C6: update_one with an identity that is not stored returns
\* modified_count 0 and changes nothing: no dict, no list, no collection.
C6_UnknownIdentityUpdate ==
    [][(MockUpdateStep /\ ~ Known(call'.which, call'.arg)) =>
           /\ call'.ret = 0
           /\ storage' = storage
           /\ dicts' = dicts
           /\ lists' = lists
      ]_vars

\* C6 witness: update_one named an identity that a collection holding
\* other documents does not store, and returned 0.
C6_Witness ==
    /\ MockUpdate
    /\ call.before = <<>>
    /\ "_id" \in DOMAIN call.arg
    /\ call.arg["_id"] \notin DictKeys(Storage(call.which))
    /\ Len(Storage(call.which)) > 0
    /\ call.ret = 0

\* C7: update_one returns modified_count 1 exactly when the identity it
\* names is stored at the call, 0 otherwise, whatever the update holds.
C7_ModifiedCount ==
    [][MockUpdateStep =>
           call'.ret = (IF Known(call'.which, call'.arg) THEN 1 ELSE 0)
      ]_vars

\* C7 witness: an update_one that left its document as it was (a $pull of
\* a value the list does not hold, a $set to the values present, no
\* operator) returned 1.
C7_Witness ==
    /\ MockUpdate
    /\ call.before # <<>>
    /\ call.before[1] = Target
    /\ call.ret = 1

\* The activities collection holds the catalog as init_database stores it
\* into an empty collection: its entries, in order, with their schedules.
CatalogStored ==
    LET st == Storage("activities")
    IN  /\ Len(st) = Len(initial_activities)
        /\ \A i \in 1..Len(st) :
               /\ st[i][1] = initial_activities[i][1]
               /\ dicts[st[i][2]]["schedule_details"]
                      = initial_activities[i][2]["schedule_details"]

\* C8: aggregate on the fallback returns one {_id: day} per day that some
\* stored document lists in schedule_details.days, every such day once,
\* in ascending order of str; a document without schedule_details or
\* without days adds nothing.  On the collection seeded from the catalog
\* these are the seven weekday names.
C8_DistinctDays ==
    (Fallback /\ call.op = "aggregate" /\ IsMock(call.which)) =>
        LET st   == Storage(call.which)
            days == UNION {Range(Detail(dicts[st[i][2]], "days", <<>>)) : i \in 1..Len(st)}
            out  == [i \in 1..Len(call.ret) |-> call.ret[i]["_id"]]
        IN  /\ \A i \in 1..Len(call.ret) : DOMAIN call.ret[i] = {"_id"}
            /\ Range(out) = days
            /\ \A i \in 1..(Len(out) - 1) : StrLess(out[i], out[i + 1])
            /\ (call.which = "activities" /\ CatalogStored) =>
                   out = <<"Friday", "Monday", "Saturday", "Sunday",
                           "Thursday", "Tuesday", "Wednesday">>

\* C8 witness: aggregate ran on the activities seeded from the catalog and
\* returned seven days.
C8_Witness ==
    /\ Fallback
    /\ call.op = "aggregate"
    /\ call.which = "activities"
    /\ CatalogStored
    /\ Len(call.ret) = 7

ChoseReal ==
    /\ MONGODB_AVAILABLE = "True"
    /\ activities_collection = [kind |-> "Collection", target |-> "activities"]
    /\ teachers_collection = [kind |-> "Collection", target |-> "teachers"]

ChoseFallback ==
    /\ MONGODB_AVAILABLE = "False"
    /\ activities_collection.kind = "MockCollection"
    /\ teachers_collection.kind = "MockCollection"
    /\ activities_collection.target # teachers_collection.target
    /\ {activities_collection.target, teachers_collection.target} = DOMAIN storage

\* C9: the import always ends with one backend chosen, the real one when
\* the connection test succeeded and the fallback, on two empty
\* collections, when it failed; afterwards no call changes the choice.
C9_BackendChosenOnce ==
    /\ [](pc = "ready" =>
            \/ (ping = "ok" /\ ChoseReal)
            \/ (ping = "failed" /\ ChoseFallback))
    /\ [][pc = "import" =>
            /\ pc' = "ready"
            /\ ping' = "failed" => \A d \in DOMAIN storage' : storage'[d] = <<>>
         ]_vars
    /\ [][pc = "ready" =>
            UNCHANGED <<pc, ping, MONGODB_AVAILABLE,
                        activities_collection, teachers_collection>>
         ]_vars

\* C9 witness: the connection test failed, and after init_database and two
\* more mutating calls the process is still on the fallback.
C9_Witness ==
    /\ pc = "ready"
    /\ ping = "failed"
    /\ ChoseFallback
    /\ init_calls = 1
    /\ nops = 3

\* s without its k-th element.
Without(s, k) == [j \in 1..(Len(s) - 1) |-> IF j < k THEN s[j] ELSE s[j + 1]]

\* C10: a $pull of value from field of a stored document takes out the
\* first occurrence of value and nothing else; when the list does not hold
\* the value, or the document has no such field, the document stays as it
\* was (the field is not created) and nothing is raised.
C10_PullFirstOccurrence ==
    (/\ MockUpdate
     /\ call.before # <<>>
     /\ DOMAIN call.update = {"$pull"}
     /\ Len(call.update["$pull"]) = 1)
    => LET field == call.update["$pull"][1][1]
           value == call.update["$pull"][1][2]
           old   == call.before[1]
       IN  /\ call.exc = ""
           /\ IF field \in DOMAIN old /\ value \in Range(old[field])
              THEN \E k \in 1..Len(old[field]) :
                      /\ old[field][k] = value
                      /\ \A j \in 1..(k - 1) : old[field][j] # value
                      /\ Target = [old EXCEPT ![field] = Without(old[field], k)]
              ELSE Target = old

\* C10 witness: x@y.edu was pulled from <<x@y.edu, michael, x@y.edu>> and
\* the list is now <<michael, x@y.edu>>.
C10_Witness ==
    /\ MockUpdate
    /\ call.before # <<>>
    /\ IsSingle(call.update, "$pull", "participants", "x@y.edu")
    /\ call.before[1]["participants"]
           = <<"x@y.edu", "michael@mergington.edu", "x@y.edu">>
    /\ Target["participants"] = <<"michael@mergington.edu", "x@y.edu">>

\* The conditions of a query that find acts on: the known field paths,
\* each with its one known operator.
Recognized(query) ==
    [k \in {p \in DOMAIN query : p \in DOMAIN Operator /\ Operator[p] \in DOMAIN query[p]}
        |-> (Operator[k] :> query[k][Operator[k]])]

\* C11: find on the fallback returns for a query what it returns for the
\* same query without its unrecognized conditions (conditions on other
\* field paths, other operators on the known field paths); for a query of
\* unrecognized conditions only, that is what find returns for no query.
C11_UnrecognizedIgnored ==
    (Fallback /\ call.op = "find" /\ IsMock(call.which)) =>
        /\ call.ret = find(Storage(call.which), dicts, Recognized(call.arg))
        /\ Recognized(call.arg) = <<>> =>
               call.ret = find(Storage(call.which), dicts, <<>>)

\* C11 witness: on the seeded activities, the query for Friday and a start
\* at or after 12:00 that also carries $lte on start_time, $gte on end_time
\* and a condition on category returned the three activities the two
\* recognized conditions select.
C11_Witness ==
    /\ Fallback
    /\ call.op = "find"
    /\ call.which = "activities"
    /\ DOMAIN call.arg = {"category", "schedule_details.days",
                          "schedule_details.start_time", "schedule_details.end_time"}
    /\ "$lte" \in DOMAIN call.arg["schedule_details.start_time"]
    /\ "Morning Fitness" \in DictKeys(Storage("activities"))
    /\ [i \in 1..Len(call.ret) |-> call.ret[i]["_id"]]
           = <<"Chess Club", "Basketball Team", "Debate Team">>

\* A step that is an insert_one on a fallback collection.
MockInsertStep ==
    /\ Fallback
    /\ nops' = nops + 1
    /\ call'.op = "insert_one"
    /\ IsMock(call'.which)

\* C12: insert_one of a document whose identity is stored raises nothing,
\* leaves the count as it was, puts the new document, and nothing of the
\* old one, under that identity at the place the identity had in find()
\* order, and leaves every other document of both collections as it was.
C12_DuplicateInsertOverwrites ==
    [][(MockInsertStep /\ call'.arg["_id"] \in DictKeys(Storage(call'.which))) =>
           LET st    == Storage(call'.which)
               st1   == storage'[Handle(call'.which).target]
               was   == DeepAll(find(st, dicts, <<>>), lists)
               found == DeepAll(find(st1, dicts', <<>>), lists')
           IN  /\ call'.exc = ""
               /\ count_documents(st1, <<>>) = count_documents(st, <<>>)
               /\ Len(found) = Len(was)
               /\ \A i \in 1..Len(was) :
                      /\ found[i]["_id"] = was[i]["_id"]
                      /\ IF was[i]["_id"] = call'.arg["_id"]
                         THEN found[i] = call'.arg
                         ELSE found[i] = was[i]
               /\ \A d \in DOMAIN storage :
                      d # Handle(call'.which).target => storage'[d] = storage[d]
      ]_vars

\* C12 witness: a document was inserted under an identity that was stored
\* first of several, with a field the new document does not have; the
\* identity is still first and the field is gone.
C12_Witness ==
    /\ Fallback
    /\ call.op = "insert_one"
    /\ IsMock(call.which)
    /\ call.before # <<>>
    /\ DOMAIN call.before[1] \ DOMAIN call.arg # {}
    /\ Len(Storage(call.which)) > 1
    /\ Storage(call.which)[1][1] = call.arg["_id"]
    /\ Deep(dicts[Storage(call.which)[1][2]], lists) = call.arg
    /\ call.exc = ""

\* The operator update_one acts on: the first the update holds of $set,
\* $push, $pull; "none" when it holds none of them.
Winner(update) ==
    IF "$set" \in DOMAIN update THEN "$set"
    ELSE IF "$push" \in DOMAIN update THEN "$push"
    ELSE IF "$pull" \in DOMAIN update THEN "$pull"
    ELSE "none"

\* The fields an operator of the update names.
Named(update, op) ==
    IF op = "$set" THEN DOMAIN update[op]
    ELSE {update[op][i][1] : i \in 1..Len(update[op])}

\* The document old after the one operator op with its operand (for $push
\* and $pull, one <<field, value>> pair) and nothing else.
Alone(op, operand, old) ==
    IF op = "$set" THEN operand @@ old
    ELSE LET field == operand[1][1]
             value == operand[1][2]
         IN  IF op = "$push"
             THEN IF field \in DOMAIN old
                  THEN [old EXCEPT ![field] = Append(@, value)]
                  ELSE (field :> <<value>>) @@ old
             ELSE IF field \in DOMAIN old /\ value \in Range(old[field])
                  THEN LET k == CHOOSE k \in 1..Len(old[field]) :
                                    /\ old[field][k] = value
                                    /\ \A j \in 1..(k - 1) : old[field][j] # value
                       IN  [old EXCEPT ![field] = Without(old[field], k)]
                  ELSE old

\* C13: update_one on a stored identity applies one operator, the first the
\* update holds of $set, $push, $pull: the document is what that operator
\* alone makes of it, every field that only the other operators name is as
\* it was (absent if it was absent), and an update that holds none of the
\* three leaves the document as it was.
C13_OneUpdateKind ==
    (MockUpdate /\ call.before # <<>>) =>
        LET w   == Winner(call.update)
            old == call.before[1]
        IN  IF w = "none" THEN Target = old
            ELSE /\ Target = Alone(w, call.update[w], old)
                 /\ \A op \in DOMAIN call.update \ {w} :
                        \A f \in Named(call.update, op) \ Named(call.update, w) :
                            IF f \in DOMAIN old
                            THEN f \in DOMAIN Target /\ Target[f] = old[f]
                            ELSE f \notin DOMAIN Target

\* C13 witness: an update holding $set of max_participants, $push and $pull
\* on participants set max_participants and left participants, a list
\* that holds the value to pull, as it was.
C13_Witness ==
    /\ MockUpdate
    /\ call.before # <<>>
    /\ DOMAIN call.update = {"$set", "$push", "$pull"}
    /\ "participants" \in DOMAIN call.before[1]
    /\ call.update["$pull"][1][2] \in Range(call.before[1]["participants"])
    /\ Target["participants"] = call.before[1]["participants"]
    /\ Target["max_participants"] = 5
    /\ call.before[1]["max_participants"] # 5

\* initial_activities as the module holds it when it is read: every entry
\* with its participants list as that list object is now.
CatalogNow ==
    [i \in 1..Len(initial_activities) |->
        <<initial_activities[i][1], Deep(initial_activities[i][2], lists)>>]

\* initial_activities as the literal of lines 139-283 wrote it.
CatalogLiteral ==
    [i \in 1..Len(initial_activities) |->
        <<initial_activities[i][1], Deep(initial_activities[i][2], initial_participants)>>]

\* C14, as claimed: once init_database has seeded the fallback, whatever
\* update_one calls follow, initial_activities holds what its literal
\* wrote, the participants of every activity included.
C14_SeedCatalogFixed ==
    (Fallback /\ init_calls > 0) => CatalogNow = CatalogLiteral

\* What the caller of the last read holds, as the caller reads it with the
\* heap ds, ls: the document find_one returned (<<>> for None), the
\* documents find returned.
Held(ds, ls) ==
    IF call.op = "find_one" THEN DeepRef(call.ret, ds, ls) ELSE DeepAll(call.ret, ls)

\* C15, as claimed: what find or find_one returned to a caller reads the
\* same after an update_one as it read when it was returned.
C15_ReadsAreSnapshots ==
    [][(/\ MockUpdateStep
        /\ call.op \in {"find_one", "find"}
        /\ IsMock(call.which))
       => Held(dicts', lists') = call.seen
      ]_vars

\* The documents of a fallback collection as find() reports them to a
\* caller, with the storage st and the heap ds, ls.
Contents(st, ds, ls) == DeepAll(find(st, ds, <<>>), ls)

Other(which) == IF which = "activities" THEN "teachers" ELSE "activities"

\* The collection keeps its documents and its count over the step.
Untouched(which) ==
    /\ Contents(storage'[Handle(which).target], dicts', lists')
           = Contents(Storage(which), dicts, lists)
    /\ count_documents(storage'[Handle(which).target], <<>>)
           = count_documents(Storage(which), <<>>)

MockReadStep ==
    /\ Fallback
    /\ call' # call
    /\ call'.op \in {"find", "find_one", "aggregate", "count_documents"}
    /\ IsMock(call'.which)

\* C17: on a fallback collection count_documents returns, whatever the
\* query, the number of distinct identities passed to insert_one so far;
\* update_one and the reads leave it as it is, and no step lowers it.
C17_CountIsDistinctInserted ==
    /\ [](Fallback =>
            \A which \in Which :
                /\ \A q \in Range(Lookups(which)) \cup Range(Queries(which)) :
                       count_documents(Storage(which), q) = Cardinality(inserted[which])
                /\ (call.op = "count_documents" /\ call.which = which)
                       => call.ret = Cardinality(inserted[which]))
    /\ [][Fallback =>
             \A which \in Which :
                 /\ count_documents(storage'[Handle(which).target], <<>>)
                        >= count_documents(Storage(which), <<>>)
                 /\ (MockUpdateStep \/ MockReadStep) =>
                        count_documents(storage'[Handle(which).target], <<>>)
                            = count_documents(Storage(which), <<>>)
        ]_vars

\* C17 witness: count_documents returned 2 after three insert_one calls,
\* two of them with the same identity.
C17_Witness ==
    /\ Fallback
    /\ call.op = "count_documents"
    /\ call.which = "activities"
    /\ nops = 3
    /\ init_calls = 0
    /\ inserted["activities"] = {"Chess Club", "Study Hall"}
    /\ Len(dicts) = 3
    /\ call.ret = 2

====
